---- MODULE Spec2Model ----
(***************************************************************************)
(* A model of downloader.py: the Notifier (rate-limited error and          *)
(* disk-usage reporting), the DataCollector (capture, frame extraction,    *)
(* archival) and the scheduler loop with its fire-and-forget threads.      *)
(*                                                                         *)
(* Time is counted in ticks, TicksPerSecond ticks to the second, so that   *)
(* the truncation done by timedelta.seconds is visible.  Sizes are counted *)
(* in units, UnitsPerGig units to the (decimal) gigabyte.                  *)
(***************************************************************************)
EXTENDS Integers, Sequences, FiniteSets, TLC

(* ------------------------------ bounds -------------------------------- *)
\* iterations of the scheduler loop that the model follows
MaxIter == 2
\* iterations whose background threads are followed once launched; the threads
\* of later iterations are launched and not scheduled within the model's horizon
MaxRun == 1
\* resolution of the model clock
TicksPerSecond == 2
\* how many times the clock may jump besides the capture's own sleep
MaxTicks == 2
\* calls made by the sequential client of the Notifier (SpecNotifier)
MaxCalls == 2
\* frames one extraction may write
MaxFrames == 2
\* resolution of file sizes
UnitsPerGig == 2
\* size of one extracted frame, in units
FrameUnits == 1

(* -------------------------- program constants ------------------------- *)
VIDEO_TIME == 30
\* Notifier(message_interval=60, max_gigs=64, size_warn_percent=.5)
message_interval_arg == 60
max_gigs == 64
\* size_warn_percent = .5 as the fraction size_warn_num / size_warn_den
size_warn_num == 5
size_warn_den == 10
\* timedelta.seconds is the seconds field of a normalised timedelta
SecondsPerDay == 86400
\* self.time_last_sent = None
None == -1
\* timedelta keeps microseconds
MicrosPerSecond == 1000000

\* self.message_interval = message_interval * 60   (seconds)
message_interval == message_interval_arg * 60

Main == 0
Threads == 0 .. 2 * MaxIter
PvThread(i) == 2 * i - 1
MsThread(i) == 2 * i
Running == { t \in Threads : t <= 2 * MaxRun }

ERR_DOWNLOAD == "Could not download video from source"
ERR_FFMPEG == "Could not split video into frames using FFMPEG"
ERR_NOIMAGES == "_move_images called but no images were found"

VARIABLES
  now,             \* the wall clock, in ticks
  nticks,          \* clock jumps taken so far
  time_last_sent,  \* Notifier.time_last_sent
  sent,            \* every chat_postMessage call made
  logsink,         \* every logging.error record written
  pc,              \* where each thread is
  stack,           \* each thread's return addresses
  cur,             \* send_message's locals: current_time, message
  he,              \* handle_error's arguments, per thread
  iter,            \* scheduler iterations completed
  calls,           \* the calls the sequential client has made, in order
  videos,          \* the *.mp4 files of the working directory
  thumbs,          \* the thumbNNNN.jpg files of the working directory
  archive,         \* the entries of the frames directory
  dl,              \* download_chunk's locals (main thread)
  pv               \* process_videos' and _move_images' locals, per thread

notifierVars == <<time_last_sent, sent, logsink>>
threadVars == <<pc, stack, cur, he>>
fsVars == <<videos, thumbs, archive>>
jobVars == <<dl, pv>>
vars == <<now, nticks, time_last_sent, sent, logsink, pc, stack, cur, he,
          iter, calls, videos, thumbs, archive, dl, pv>>

(* ------------------------------ helpers ------------------------------- *)
Secs(s) == s * TicksPerSecond

\* timedelta.seconds: the normalised timedelta has 0 <= seconds < 86400 and
\* 0 <= microseconds < 10^6, the days carrying the sign
TimedeltaSeconds(d) == (d \div TicksPerSecond) % SecondsPerDay

Goto(t, label) == pc' = [pc EXCEPT ![t] = label]

Call(t, label, retlabel) ==
  /\ pc' = [pc EXCEPT ![t] = label]
  /\ stack' = [stack EXCEPT ![t] = <<retlabel>> \o @]

Return(t) ==
  /\ pc' = [pc EXCEPT ![t] = Head(stack[t])]
  /\ stack' = [stack EXCEPT ![t] = Tail(@)]

\* No try/except exists in the program: an exception unwinds the whole thread.
\* In the main thread that ends the scheduler loop; a background thread dies.
\* The sequential client of SpecNotifier catches it and goes on.
Unwound(t) ==
  IF stack[t] # <<>> /\ stack[t][Len(stack[t])] = "client" THEN "client"
  ELSE IF t = Main THEN "crashed" ELSE "died"

Raise(t) ==
  /\ pc' = [pc EXCEPT ![t] = Unwound(t)]
  /\ stack' = [stack EXCEPT ![t] = <<>>]

NoCall == [k |-> 0, msg |-> "", obj |-> FALSE]
NoCur == [time |-> None, msg |-> "", call |-> 0, part |-> ""]

\* send_message returns, and with it handle_error when this was its second
\* call; the locals of the frames that end are gone (he.k counts the calls)
LeaveSend(t) ==
  /\ Return(t)
  /\ cur' = [cur EXCEPT ![t] = NoCur]
  /\ he' = IF cur[t].part = "tail" THEN [he EXCEPT ![t] = [NoCall EXCEPT !.k = he[t].k]]
           ELSE he

\* an exception leaves send_message
RaiseFromSend(t) ==
  /\ Raise(t)
  /\ cur' = [cur EXCEPT ![t] = NoCur]
  /\ he' = [he EXCEPT ![t] = [NoCall EXCEPT !.k = he[t].k]]

(* ------------------------------ the clock ----------------------------- *)
Deltas ==
  { 1, Secs(message_interval) - 1, Secs(message_interval), Secs(message_interval) + 1,
    Secs(message_interval + 1), Secs(SecondsPerDay + 10) }

Tick ==
  /\ nticks < MaxTicks
  /\ \E d \in Deltas : now' = now + d
  /\ nticks' = nticks + 1
  /\ UNCHANGED <<notifierVars, threadVars, iter, calls, fsVars, jobVars>>

(* ------------------------------ Notifier ------------------------------ *)
\* a variant of the test that compares with the interval as given, in minutes
MayTransmitUnscaled(last, current_time) ==
  last = None \/ TimedeltaSeconds(current_time - last) > message_interval_arg

\* send_message, line 122: the rate-limit test
MayTransmit(last, current_time) ==
  last = None \/ TimedeltaSeconds(current_time - last) > message_interval

SmCheck(t) ==
  /\ pc[t] = "sm_check"
  /\ IF MayTransmit(time_last_sent, cur[t].time)
       THEN Goto(t, "sm_send") /\ UNCHANGED <<stack, cur, he>>
       ELSE LeaveSend(t)
  /\ UNCHANGED <<now, nticks, notifierVars, iter, calls, fsVars, jobVars>>

\* send_message, lines 123-124: time_last_sent is written first, then the client
\* is called; the client may raise
SmSend(t) ==
  /\ pc[t] = "sm_send"
  /\ time_last_sent' = cur[t].time
  /\ \E ok \in BOOLEAN :
       /\ sent' = sent \cup {[time |-> cur[t].time, t |-> t, call |-> cur[t].call,
                               part |-> cur[t].part, ok |-> ok]}
       /\ IF ok THEN LeaveSend(t) ELSE RaiseFromSend(t)
  /\ UNCHANGED <<now, nticks, logsink, iter, calls, fsVars, jobVars>>

\* send_message(message) is entered; line 120: current_time = datetime.datetime.now()
EnterSend(t, message, call, part) ==
  cur' = [cur EXCEPT ![t] = [time |-> now, msg |-> message, call |-> call, part |-> part]]

\* handle_error, lines 109-114: the error and the raw detail go to the log,
\* then send_message(error_msg) is called
\* a variant that leaves the raw detail out of the log
LogRecordsNoDetail(t, call, error_msg, has_obj) ==
  { [t |-> t, call |-> call, text |-> error_msg] }

LogRecords(t, call, error_msg, has_obj) ==
  IF has_obj THEN { [t |-> t, call |-> call, text |-> error_msg],
                    [t |-> t, call |-> call, text |-> "detail"] }
             ELSE { [t |-> t, call |-> call, text |-> error_msg] }

HeLog(t) ==
  /\ pc[t] = "he_log"
  /\ logsink' = logsink \cup LogRecords(t, he[t].k, he[t].msg, he[t].obj)
  /\ EnterSend(t, he[t].msg, he[t].k, "error")
  /\ Call(t, "sm_check", "he_tail")
  /\ UNCHANGED <<now, nticks, time_last_sent, sent, he, iter, calls, fsVars, jobVars>>

\* handle_error, lines 115-117: tail of the log file (check_output raises when
\* tail fails), then send_message(log_tail), whose return is handle_error's
HeTail(t) ==
  /\ pc[t] = "he_tail"
  /\ \E tail_ok \in BOOLEAN :
       IF tail_ok
         THEN /\ EnterSend(t, "log_tail", he[t].k, "tail")
              /\ Goto(t, "sm_check")
              /\ UNCHANGED stack
              /\ UNCHANGED he
         ELSE /\ Raise(t)
              /\ cur' = [cur EXCEPT ![t] = NoCur]
              /\ he' = [he EXCEPT ![t] = [NoCall EXCEPT !.k = he[t].k]]
  /\ UNCHANGED <<now, nticks, notifierVars, iter, calls, fsVars, jobVars>>

\* entering handle_error(error_msg, error_obj)
EnterHandleError(t, error_msg, has_obj) ==
  he' = [he EXCEPT ![t] = [k |-> he[t].k + 1, msg |-> error_msg, obj |-> has_obj]]

(* ----------------- a sequential client of the Notifier ---------------- *)
\* One caller using a fresh Notifier: send_message, handle_error or monitor_size,
\* one call after the other, the clock moving freely in between.
ClientCalls(kind) ==
  /\ pc[Main] = "client"
  /\ Len(calls) < MaxCalls
  /\ calls' = Append(calls, [kind |-> kind, time |-> now])
  /\ stack' = [stack EXCEPT ![Main] = <<"client", "client">>]

ClientSend ==
  /\ ClientCalls("send_message")
  /\ EnterSend(Main, "message", Len(calls) + 1, "plain")
  /\ pc' = [pc EXCEPT ![Main] = "sm_check"]
  /\ UNCHANGED <<now, nticks, notifierVars, he, iter, fsVars, jobVars>>

ClientError ==
  /\ ClientCalls("handle_error")
  /\ \E has_obj \in BOOLEAN : EnterHandleError(Main, ERR_DOWNLOAD, has_obj)
  /\ pc' = [pc EXCEPT ![Main] = "he_log"]
  /\ UNCHANGED <<now, nticks, notifierVars, cur, iter, fsVars, jobVars>>

ClientMonitor ==
  /\ ClientCalls("monitor_size")
  /\ pc' = [pc EXCEPT ![Main] = "ms_size"]
  /\ UNCHANGED <<now, nticks, notifierVars, cur, he, iter, fsVars, jobVars>>

(* ---------------------------- file system ----------------------------- *)
\* An artifact is named by the second its capture began (ts: the name parses
\* as a timestamp, which every name download_chunk gives does).
Artifact(sec) == [ts |-> TRUE, sec |-> sec]
NoFile == [ts |-> FALSE, sec |-> -1]

\* str(datetime.datetime.now()).split('.')[0]: the clock cut to the second
FormatSecond(ticks) == ticks \div TicksPerSecond

\* the sequences that list every element of S once (glob gives no order)
Orders(S) ==
  { f \in [1 .. Cardinality(S) -> S] : \A i, j \in DOMAIN f : f[i] = f[j] => i = j }

\* sorted(glob.glob("*.jpg")): the thumbNNNN.jpg files present, ascending
RECURSIVE SortedImages(_, _)
SortedImages(th, i) ==
  IF i > MaxFrames THEN <<>>
  ELSE (IF th[i] # NoFile THEN <<i>> ELSE <<>>) \o SortedImages(th, i + 1)

\* timedelta(seconds=x) rounds x to the microsecond, ties to even
RoundDiv(a, n) ==
  LET q == a \div n
      r == a % n
  IN  IF 2 * r < n THEN q
      ELSE IF 2 * r > n THEN q + 1
      ELSE IF q % 2 = 0 THEN q ELSE q + 1

\* _move_images, lines 79-80: time_range.seconds / len(images), in microseconds
SecondsInterval(time_range, n) ==
  RoundDiv(TimedeltaSeconds(time_range) * MicrosPerSecond, n)

\* _get_dir_size, line 132: the sizes of the regular files directly in the directory
RECURSIVE SumSizes(_)
SumSizes(S) ==
  IF S = {} THEN 0
  ELSE LET e == CHOOSE x \in S : TRUE IN e.size + SumSizes(S \ {e})

DirSize(dir) == SumSizes({e \in dir : e.isfile})

\* a variant that leaves the boundary out
OverThresholdStrict(cur_size) ==
  cur_size * size_warn_den > max_gigs * UnitsPerGig * size_warn_num

\* monitor_size, line 128: cur_size >= self.max_gigs * self.size_warn_percent
OverThreshold(cur_size) ==
  cur_size * size_warn_den >= max_gigs * UnitsPerGig * size_warn_num

ThresholdUnits == (max_gigs * UnitsPerGig * size_warn_num) \div size_warn_den

NoPv == [files |-> <<>>, rc |-> 0, start |-> 0, range |-> 0, images |-> <<>>,
         interval |-> 0, offset |-> 0, moved |-> 0, errs |-> 0]
NoDl == [name |-> NoFile, started |-> 0, rc |-> 0, marker |-> FALSE]

(* --------------------------- download_chunk --------------------------- *)
\* __main__, line 165: notifier.send_message('test')
MainTest ==
  /\ pc[Main] = "main_test"
  /\ EnterSend(Main, "test", 0, "plain")
  /\ Call(Main, "sm_check", "main_download")
  /\ UNCHANGED <<now, nticks, notifierVars, he, iter, calls, fsVars, jobVars>>

\* download_chunk, lines 27-29: the capture process is started; it creates its
\* output file under its final name (--no-part), or fails before it does
DlStart ==
  /\ pc[Main] = "main_download"
  /\ iter < MaxIter
  /\ dl' = [name |-> Artifact(FormatSecond(now)), started |-> now, rc |-> 0, marker |-> FALSE]
  /\ \E created \in BOOLEAN :
       videos' = IF created THEN videos \cup {Artifact(FormatSecond(now))} ELSE videos
  /\ Goto(Main, "dl_wait")
  /\ UNCHANGED <<now, nticks, notifierVars, stack, cur, he, iter, calls, thumbs, archive, pv>>

\* a variant that ignores the deliberate-interrupt marker
CaptureFailedAnyNonZero(returncode, marker) == returncode # 0

\* download_chunk, line 37
CaptureFailed(returncode, marker) == returncode # 0 /\ ~marker

\* how long a capture may take: the sleep, and the time the process takes to exit
CaptureTimes == { Secs(VIDEO_TIME), Secs(VIDEO_TIME + message_interval + 1) }

\* download_chunk, lines 31-40: the sleep is over, the process is interrupted and
\* its exit code and stderr are read
DlFinish ==
  /\ pc[Main] = "dl_wait"
  /\ \E d \in CaptureTimes : now' = IF now < dl.started + d THEN dl.started + d ELSE now
  /\ \E returncode \in {0, 1}, marker \in BOOLEAN :
       /\ dl' = [dl EXCEPT !.rc = returncode, !.marker = marker]
       /\ IF CaptureFailed(returncode, marker)
            THEN /\ EnterHandleError(Main, ERR_DOWNLOAD, TRUE)
                 /\ Call(Main, "he_log", "main_spawn")
            ELSE /\ Goto(Main, "main_spawn")
                 /\ UNCHANGED <<stack, he>>
  /\ UNCHANGED <<nticks, time_last_sent, sent, logsink, cur, iter, calls, fsVars, pv>>

(* ------------------------------ scheduler ----------------------------- *)
\* a variant that joins the background threads of the earlier iterations before
\* it starts new ones
SpawnAfterJoin ==
  /\ pc[Main] = "main_spawn"
  /\ \A t \in Threads \ {Main} : pc[t] \in {"idle", "done", "died"}
  /\ pc' = [pc EXCEPT ![Main] = "main_download", ![PvThread(iter + 1)] = "pv_glob",
                       ![MsThread(iter + 1)] = "ms_size"]
  /\ stack' = [stack EXCEPT ![MsThread(iter + 1)] = <<"done">>]
  /\ dl' = NoDl
  /\ iter' = iter + 1
  /\ UNCHANGED <<now, nticks, notifierVars, cur, he, calls, fsVars, pv>>

\* __main__, lines 169-170: run_threaded(data_collector.process_videos) and
\* run_threaded(notifier.monitor_size), and back to line 167; download_chunk has
\* returned and its locals are gone
Spawn ==
  /\ pc[Main] = "main_spawn"
  /\ pc' = [pc EXCEPT ![Main] = "main_download", ![PvThread(iter + 1)] = "pv_glob",
                       ![MsThread(iter + 1)] = "ms_size"]
  /\ stack' = [stack EXCEPT ![MsThread(iter + 1)] = <<"done">>]
  /\ dl' = NoDl
  /\ iter' = iter + 1
  /\ UNCHANGED <<now, nticks, notifierVars, cur, he, calls, fsVars, pv>>

(* --------------------------- process_videos --------------------------- *)
\* process_videos, lines 43-51: the *.mp4 files found, in the order glob gives
PvGlob(t) ==
  /\ pc[t] = "pv_glob"
  /\ \E files \in Orders(videos) :
       /\ pv' = [pv EXCEPT ![t].files = files]
       /\ Goto(t, IF files = <<>> THEN "done" ELSE "pv_ffmpeg")
  /\ UNCHANGED <<now, nticks, notifierVars, stack, cur, he, iter, calls, fsVars, dl>>

\* the frames ffmpeg writes: thumb0001.jpg .. thumb000n.jpg, over what is there
Extracted(th, file, n) ==
  [i \in 1 .. MaxFrames |-> IF i <= n THEN file ELSE th[i]]

\* process_videos, lines 53-58: ffmpeg runs on the file; a non-zero exit is reported
PvFfmpeg(t) ==
  /\ pc[t] = "pv_ffmpeg"
  /\ LET file == Head(pv[t].files) IN
     \E returncode \in {0, 1}, n \in 0 .. MaxFrames :
       /\ file \notin videos => (returncode = 1 /\ n = 0)
       /\ thumbs' = Extracted(thumbs, file, n)
       /\ IF returncode # 0
            THEN /\ pv' = [pv EXCEPT ![t].rc = returncode, ![t].moved = 0, ![t].errs = 1]
                 /\ EnterHandleError(t, ERR_FFMPEG, TRUE)
                 /\ Call(t, "he_log", "pv_remove_fail")
            ELSE /\ pv' = [pv EXCEPT ![t].rc = returncode, ![t].moved = 0, ![t].errs = 0]
                 /\ Goto(t, "pv_probe")
                 /\ UNCHANGED <<stack, he>>
  /\ UNCHANGED <<now, nticks, time_last_sent, sent, logsink, cur, iter, calls,
                 videos, archive, dl>>

\* the for loop of line 51 goes to the next file, or process_videos returns
NextFile(t) ==
  /\ pv' = [pv EXCEPT ![t] = [NoPv EXCEPT !.files = Tail(pv[t].files)]]
  /\ Goto(t, IF Tail(pv[t].files) = <<>> THEN "done" ELSE "pv_ffmpeg")

\* a variant that goes on to the next file and leaves this one on disk
RemoveFileKept(t) ==
  /\ NextFile(t)
  /\ UNCHANGED <<videos, stack>>

\* os.remove(file), lines 59 and 68: FileNotFoundError when the file is gone
RemoveFile(t) ==
  IF Head(pv[t].files) \in videos
    THEN /\ videos' = videos \ {Head(pv[t].files)}
         /\ NextFile(t)
         /\ UNCHANGED stack
    ELSE /\ Raise(t)
         /\ UNCHANGED <<videos, pv>>

\* process_videos, line 59
PvRemoveFail(t) ==
  /\ pc[t] = "pv_remove_fail"
  /\ RemoveFile(t)
  /\ UNCHANGED <<now, nticks, notifierVars, cur, he, iter, calls, thumbs, archive, dl>>

\* process_videos, lines 67-69
PvRemoveOk(t) ==
  /\ pc[t] = "pv_remove_ok"
  /\ RemoveFile(t)
  /\ UNCHANGED <<now, nticks, notifierVars, cur, he, iter, calls, thumbs, archive, dl>>

\* what ffprobe may print for a file: a duration in ticks (the full capture, or
\* a second and a half of it), or nothing parsable (-1)
Durations == { Secs(VIDEO_TIME), Secs(1) + 1, -1 }

\* process_videos, lines 61-65, and get_video_length: strptime raises ValueError
\* for a name that is no timestamp, float() for an output that is no number
PvProbe(t) ==
  /\ pc[t] = "pv_probe"
  /\ LET file == Head(pv[t].files) IN
     \E d \in Durations :
       /\ file \notin videos => d = -1
       /\ IF file.ts /\ d # -1
            THEN /\ pv' = [pv EXCEPT ![t].start = file.sec, ![t].range = d]
                 /\ Goto(t, "mv_glob")
                 /\ UNCHANGED stack
            ELSE /\ Raise(t)
                 /\ UNCHANGED pv
  /\ UNCHANGED <<now, nticks, notifierVars, cur, he, iter, calls, fsVars, dl>>

(* ---------------------------- _move_images ---------------------------- *)
\* _move_images, lines 72-82
MvGlob(t) ==
  /\ pc[t] = "mv_glob"
  /\ LET images == SortedImages(thumbs, 1) IN
       IF images = <<>>
         THEN /\ pv' = [pv EXCEPT ![t].images = images, ![t].errs = @ + 1]
              /\ EnterHandleError(t, ERR_NOIMAGES, FALSE)
              /\ Call(t, "he_log", "pv_remove_ok")
         ELSE /\ pv' = [pv EXCEPT ![t].images = images, ![t].offset = 0, ![t].range = 0,
                                  ![t].interval = SecondsInterval(pv[t].range, Len(images))]
              /\ Goto(t, "mv_move")
              /\ UNCHANGED <<stack, he>>
  /\ UNCHANGED <<now, nticks, time_last_sent, sent, logsink, cur, iter, calls, fsVars, dl>>

\* current_time.strftime('%Y-%m-%d %H:%M:%S'): the second of start + offset
FrameName(start, offset) == start + offset \div MicrosPerSecond

\* _move_images, lines 84-87: one turn of the loop; shutil.move raises
\* FileNotFoundError when the image is gone, and replaces an entry of that name
MvMove(t) ==
  /\ pc[t] = "mv_move"
  /\ LET image == Head(pv[t].images)
         name == FrameName(pv[t].start, pv[t].offset)
     IN  IF thumbs[image] # NoFile
           THEN /\ archive' = {e \in archive : e.name # name} \cup
                                {[name |-> name, isfile |-> TRUE, size |-> FrameUnits,
                                  origin |-> thumbs[image], for |-> Head(pv[t].files)]}
                /\ thumbs' = [thumbs EXCEPT ![image] = NoFile]
                /\ pv' = [pv EXCEPT ![t].images = Tail(@), ![t].moved = @ + 1,
                                    ![t].offset = @ + pv[t].interval]
                /\ Goto(t, IF Tail(pv[t].images) = <<>> THEN "pv_remove_ok" ELSE "mv_move")
                /\ UNCHANGED stack
           ELSE /\ Raise(t)
                /\ UNCHANGED <<archive, thumbs, pv>>
  /\ UNCHANGED <<now, nticks, notifierVars, cur, he, iter, calls, videos, dl>>

(* ---------------------------- monitor_size ---------------------------- *)
\* monitor_size, lines 127-129; the return of send_message is monitor_size's
MsSize(t) ==
  /\ pc[t] = "ms_size"
  /\ IF OverThreshold(DirSize(archive))
       THEN /\ EnterSend(t, "WARNING", Len(calls), "warn")
            /\ Goto(t, "sm_check")
            /\ UNCHANGED stack
       ELSE /\ Return(t)
            /\ UNCHANGED cur
  /\ UNCHANGED <<now, nticks, notifierVars, he, iter, calls, fsVars, jobVars>>

(* --------------------------- specifications --------------------------- *)
\* the entries the frames directory may hold when the program starts
\* (setup_directory keeps an existing directory)
OldFile(size) == [name |-> -1, isfile |-> TRUE, size |-> size, origin |-> NoFile, for |-> NoFile]
SubDir == [name |-> -2, isfile |-> FALSE, size |-> ThresholdUnits, origin |-> NoFile, for |-> NoFile]
InitArchives ==
  { {}, {SubDir}, {OldFile(ThresholdUnits - 1), SubDir}, {OldFile(ThresholdUnits)} }
ProgramArchives == { {OldFile(ThresholdUnits - 1), SubDir} }

InitCommon ==
  /\ now = 0
  /\ nticks = 0
  /\ time_last_sent = None
  /\ sent = {}
  /\ logsink = {}
  /\ stack = [t \in Threads |-> <<>>]
  /\ cur = [t \in Threads |-> NoCur]
  /\ he = [t \in Threads |-> NoCall]
  /\ iter = 0
  /\ calls = <<>>
  /\ thumbs = [i \in 1 .. MaxFrames |-> NoFile]
  /\ dl = NoDl
  /\ pv = [t \in Threads |-> NoPv]

\* a fresh Notifier and one caller
InitNotifier ==
  /\ InitCommon
  /\ videos = {}
  /\ archive \in InitArchives
  /\ pc = [t \in Threads |-> IF t = Main THEN "client" ELSE "idle"]

NextNotifier ==
  \/ Tick
  \/ ClientSend
  \/ ClientError
  \/ ClientMonitor
  \/ SmCheck(Main)
  \/ SmSend(Main)
  \/ HeLog(Main)
  \/ HeTail(Main)
  \/ MsSize(Main)

SpecNotifier == InitNotifier /\ [][NextNotifier]_vars

\* the program: __main__ from line 163 on
Init ==
  /\ InitCommon
  /\ videos = {}
  /\ archive \in ProgramArchives
  /\ pc = [t \in Threads |-> IF t = Main THEN "main_test" ELSE "idle"]

Next ==
  \/ MainTest
  \/ DlStart
  \/ DlFinish
  \/ Spawn
  \/ \E t \in Running :
       \/ SmCheck(t)
       \/ SmSend(t)
       \/ HeLog(t)
       \/ HeTail(t)
       \/ PvGlob(t)
       \/ PvFfmpeg(t)
       \/ PvProbe(t)
       \/ MvGlob(t)
       \/ MvMove(t)
       \/ PvRemoveFail(t)
       \/ PvRemoveOk(t)
       \/ MsSize(t)

Spec == Init /\ [][Next]_vars

\* the steps of the main thread
MainStep ==
  \/ MainTest
  \/ DlStart
  \/ DlFinish
  \/ Spawn
  \/ SmCheck(Main)
  \/ SmSend(Main)
  \/ HeLog(Main)
  \/ HeTail(Main)

\* The main thread keeps being scheduled and every call it makes comes back
\* (a capture lasts VIDEO_TIME and the process answers the interrupt); nothing
\* is assumed of the background threads, which may stall for ever.
SpecLive == Init /\ [][Next]_vars /\ WF_vars(MainStep)

\* process_videos run on its own, over the artifacts earlier captures left: once
\* more after it has ended, or as two threads at the same time
PassVideos == { {Artifact(0)}, {Artifact(0), Artifact(VIDEO_TIME)} }

InitPasses ==
  /\ InitCommon
  /\ videos \in PassVideos
  /\ archive = {}
  /\ pc = [t \in Threads |-> IF t = PvThread(1) THEN "pv_glob" ELSE "idle"]

\* process_videos is called again after the first call has ended
RunAgain ==
  /\ pc[PvThread(1)] \in {"done", "died"}
  /\ pc[PvThread(2)] = "idle"
  /\ pc' = [pc EXCEPT ![PvThread(2)] = "pv_glob"]
  /\ calls' = Append(calls, [kind |-> "process_videos", time |-> now])
  /\ UNCHANGED <<now, nticks, notifierVars, stack, cur, he, iter, fsVars, jobVars>>

\* a second process_videos thread is started while the first has yet to begin
RunOverlapping ==
  /\ pc[PvThread(1)] = "pv_glob"
  /\ pc[PvThread(2)] = "idle"
  /\ pc' = [pc EXCEPT ![PvThread(2)] = "pv_glob"]
  /\ UNCHANGED <<now, nticks, notifierVars, stack, cur, he, iter, calls, fsVars, jobVars>>

NextPasses ==
  \/ RunAgain
  \/ RunOverlapping
  \/ \E t \in {PvThread(1), PvThread(2)} :
       \/ SmCheck(t)
       \/ SmSend(t)
       \/ HeLog(t)
       \/ HeTail(t)
       \/ PvGlob(t)
       \/ PvFfmpeg(t)
       \/ PvProbe(t)
       \/ MvGlob(t)
       \/ MvMove(t)
       \/ PvRemoveFail(t)
       \/ PvRemoveOk(t)

SpecPasses == InitPasses /\ [][NextPasses]_vars

(* ------------------------------- claims ------------------------------- *)
\* the chat_postMessage calls made for call number i of the sequential client
ClientTx(i) == { s \in sent : s.t = Main /\ s.call = i /\ s.part = "plain" }

\* the sequential client made send_message calls first and second, and the
\* second has returned
TwoSends ==
  /\ Len(calls) >= 2
  /\ calls[1].kind = "send_message"
  /\ calls[2].kind = "send_message"
  /\ (Len(calls) > 2 \/ pc[Main] = "client")

\* the messages of handle_error call k of thread t that the client delivered
Delivered(t, k, part) ==
  \E s \in sent : s.t = t /\ s.call = k /\ s.part = part /\ s.ok

\* handle_error call he[t].k of thread t has returned to its caller
HandleErrorReturned(t) ==
  /\ he[t].k > 0
  /\ he[t].msg = ""
  /\ pc[t] \notin {"crashed", "died"}

\* C1: no two transmissions to the messaging client are made less than
\* message_interval apart, whatever the interleaving of the send_message calls
\* of the main loop and of the background threads.
C1_TransmissionsSpaced ==
  \A a, b \in sent :
    a # b => (a.time - b.time >= Secs(message_interval)
              \/ b.time - a.time >= Secs(message_interval))

\* C2: on a fresh Notifier, of two sequential send_message calls less than
\* message_interval apart the first transmits and the second is suppressed:
\* exactly one transmission.
C2_SecondSuppressed ==
  (TwoSends /\ calls[2].time - calls[1].time < Secs(message_interval))
    => (Cardinality(ClientTx(1)) = 1 /\ ClientTx(2) = {})

C2_Witness ==
  /\ TwoSends
  /\ calls[2].time - calls[1].time = Secs(message_interval) - 1
  /\ ClientTx(1) # {}
  /\ ClientTx(2) = {}

\* C3: two sequential send_message calls at least message_interval apart both
\* transmit, also when they are exactly message_interval or more than a day apart.
C3_BothTransmit ==
  (TwoSends /\ calls[2].time - calls[1].time >= Secs(message_interval))
    => (ClientTx(1) # {} /\ ClientTx(2) # {})

\* C4: a handle_error call that has returned delivered the tail of the log if
\* and only if it delivered its error message.
C4_TailWithError ==
  \A t \in Threads :
    HandleErrorReturned(t)
      => (Delivered(t, he[t].k, "error") <=> Delivered(t, he[t].k, "tail"))

RECURSIVE RegularTotal(_)
RegularTotal(dir) ==
  IF \A e \in dir : ~e.isfile THEN 0
  ELSE LET e == CHOOSE x \in dir : x.isfile IN e.size + RegularTotal(dir \ {e})

\* C6: monitor_size calls send_message with a usage warning if and only if the
\* regular files directly in the archive directory total at least
\* max_gigs * size_warn_percent, equality included.
C6_WarnIffOverThreshold ==
  [][ \A t \in Threads :
        (pc[t] = "ms_size" /\ pc'[t] # "ms_size")
          => ((pc'[t] = "sm_check" /\ cur'[t].part = "warn")
                <=> RegularTotal(archive) >= ThresholdUnits) ]_vars

\* a warning is being sent for a directory exactly at the threshold
C6_Witness ==
  \E t \in Threads :
    /\ pc[t] = "sm_check"
    /\ cur[t].part = "warn"
    /\ RegularTotal(archive) = ThresholdUnits
    /\ \E e \in archive : ~e.isfile

C8_LoopSurvivesErrors == ~(pc[Main] = "crashed" /\ he[Main].k > 0)

\* the pass of thread t is through with the artifact it was handling
DoneWithArtifact(t) ==
  /\ pv[t].files # <<>>
  /\ pc[t] # "died"
  /\ (pv'[t].files # pv[t].files \/ pc'[t] = "died")

\* C9: when frame extraction exits non-zero for an artifact, the pass makes
\* exactly one handle_error call for it, about the frame splitting, moves no
\* frame for it, and the artifact file is removed.
C9_FailedExtractionCleansUp ==
  [][ \A t \in Threads :
        (pv[t].rc # 0 /\ DoneWithArtifact(t))
          => /\ pv[t].errs = 1
             /\ pv[t].moved = 0
             /\ Head(pv[t].files) \notin videos' ]_vars

\* C10: within one pass, a failure on one artifact never keeps the remaining
\* artifacts found by the pass from being processed: no pass ends while
\* artifacts it found are still waiting.
C10_PassHandlesEveryArtifact ==
  \A t \in Threads : pc[t] = "died" => Len(pv[t].files) <= 1

\* thread t computes the interval for the frames it found (lines 78-80)
IntervalComputed(t) == pc[t] = "mv_glob" /\ pc'[t] = "mv_move"

\* thread t moves one frame into the archive (lines 85-87)
FrameMoved(t) == pc[t] = "mv_move" /\ pv'[t].moved = pv[t].moved + 1

\* C11: the frame at position i of the n frames found gets the timestamp
\* start_time + i * (duration / n), to the microsecond that timedelta keeps
\* (the duration d in ticks, the offsets in microseconds); frame 0 gets
\* start_time and the timestamps do not decrease.
C11_FrameTimestamps ==
  [][ \A t \in Threads :
        /\ IntervalComputed(t) =>
             LET n == Len(pv'[t].images)
                 d == pv[t].range
             IN  \A i \in 0 .. n - 1 :
                   LET got == i * pv'[t].interval * TicksPerSecond * n
                       want == i * d * MicrosPerSecond
                   IN  /\ got - want <= i * TicksPerSecond * n
                       /\ want - got <= i * TicksPerSecond * n
        /\ FrameMoved(t) =>
             /\ pv[t].offset = pv[t].moved * pv[t].interval
             /\ pv[t].interval >= 0
             /\ \E e \in archive' :
                  e.name = FrameName(pv[t].start, pv[t].offset) /\ e.for = Head(pv[t].files) ]_vars

\* no archival pass other than that of thread t has begun to run
OnlyPass(t) ==
  \A i \in 1 .. MaxIter : PvThread(i) # t => pc[PvThread(i)] \in {"idle", "pv_glob"}

\* the file names given to the frames moved by thread t for its current artifact
NamesGiven(t) ==
  { FrameName(pv[t].start, i * pv[t].interval) : i \in 0 .. pv[t].moved - 1 }

\* C12: when a pass, no other pass running, has handled an artifact whose
\* extraction succeeded with at least one frame, the artifact file is gone, no
\* frame file is left in the working directory, and the archive holds exactly
\* one file for each distinct second-precision timestamp, frames of the same
\* second replacing each other; no move and no delete raises.
C12_ArchivedAndRemoved ==
  [][ \A t \in Threads :
        /\ (OnlyPass(t) /\ pc[t] \in {"mv_move", "pv_remove_ok"}) => pc'[t] # "died"
        /\ (OnlyPass(t) /\ pc[t] = "pv_remove_ok" /\ pv[t].moved >= 1 /\ pc'[t] # pc[t])
             => /\ Head(pv[t].files) \notin videos'
                /\ \A i \in DOMAIN thumbs' : thumbs'[i] = NoFile
                /\ \A nm \in NamesGiven(t) :
                     Cardinality({ e \in archive' : e.name = nm /\ e.isfile }) = 1
                /\ Cardinality({ e \in archive' : e.for = Head(pv[t].files) })
                     = Cardinality(NamesGiven(t)) ]_vars

\* two frames of one artifact fell into the same second: both were moved out of
\* the working directory and the archive holds one file for them
C12_Witness ==
  \E t \in Threads :
    /\ OnlyPass(t)
    /\ pc[t] = "pv_remove_ok"
    /\ pv[t].moved = 2
    /\ Cardinality(NamesGiven(t)) = 1
    /\ \A i \in DOMAIN thumbs : thumbs[i] = NoFile
    /\ Cardinality({ e \in archive : e.for = Head(pv[t].files) }) = 1

\* C13: when extraction succeeded and no frame is found, the pass reports an
\* error, moves nothing, and leaves the artifact file on disk.
C13_EmptyFrameSetKeepsArtifact ==
  [][ \A t \in Threads :
        (pv[t].rc = 0 /\ pv[t].errs >= 1 /\ DoneWithArtifact(t))
          => /\ pv[t].errs = 1
             /\ pv[t].moved = 0
             /\ \E r \in logsink : r.t = t /\ r.text = ERR_NOIMAGES
             /\ Head(pv[t].files) \in videos' ]_vars

\* process_videos was run a second time after the first run had ended
InSuccession == calls # <<>> /\ calls[1].kind = "process_videos"

\* C14: a second run of process_videos right after the first, no artifact
\* created in between, is a no-op: it finds no artifact, moves no frame,
\* deletes nothing and reports no error.
C14_SecondRunNoOp ==
  InSuccession =>
    /\ pc[PvThread(2)] \in {"pv_glob", "done"}
    /\ pv[PvThread(2)] = NoPv
    /\ he[PvThread(2)].k = 0

\* a background thread of iteration i is launched in this step
Launched(i) ==
  \/ pc[PvThread(i)] = "idle" /\ pc'[PvThread(i)] # "idle"
  \/ pc[MsThread(i)] = "idle" /\ pc'[MsThread(i)] # "idle"

\* C15: every scheduler iteration launches one archival pass and one disk-usage
\* check, whether its capture succeeded or reported an error, and launches them
\* only after its download_chunk call has returned: the pair is launched
\* together from line 169, and an iteration that has begun ends in no other way.
C15_LaunchEveryIteration ==
  [][ /\ \A i \in 1 .. MaxIter :
           Launched(i) => /\ pc[Main] = "main_spawn"
                          /\ i = iter + 1
                          /\ pc'[PvThread(i)] = "pv_glob"
                          /\ pc'[MsThread(i)] = "ms_size"
      /\ (dl.name # NoFile /\ pc[Main] # "main_spawn")
           => pc'[Main] \notin {"main_download", "crashed"} ]_vars

\* an archival pass is in flight: launched and not ended
InFlight(t) == pc[t] \notin {"idle", "done", "died"}

\* C16: the scheduler never waits for a background task: as long as every
\* download_chunk call returns, the main loop goes through every iteration of
\* the horizon, also when the passes and checks launched earlier never finish.
C16_LoopNeverWaits == [](pc[Main] # "crashed") => <>(iter = MaxIter)

\* the loop has launched a second pass while the first is still in flight
C16_Witness ==
  /\ iter >= 2
  /\ InFlight(PvThread(1))
  /\ InFlight(PvThread(2))

\* C17: when process_videos passes overlap on the same artifacts the race is
\* bounded: no pass is ended by an error of a move or a delete (the file gone
\* because the other pass took it), so every pass goes on to the other
\* artifacts it found.
C17_RaceBounded ==
  [][ \A t \in Threads :
        (~InSuccession /\ pc[t] \in {"mv_move", "pv_remove_fail", "pv_remove_ok"})
          => pc'[t] # "died" ]_vars

\* thread t runs ffmpeg on, or deletes, the artifact at the head of its list
TouchesArtifact(t) ==
  /\ pc[t] \in {"pv_ffmpeg", "pv_remove_fail", "pv_remove_ok"}
  /\ pc'[t] # pc[t]
  /\ Head(pv[t].files) \in videos

\* C18: a pass never extracts frames from, nor deletes, an artifact whose
\* capture is still in progress: the artifact it touches is never the one the
\* capture process in flight is writing.
C18_NoArtifactInCapture ==
  [][ \A t \in Threads :
        TouchesArtifact(t) => ~(pc[Main] = "dl_wait" /\ Head(pv[t].files) = dl.name) ]_vars

\* C19: every frame file archived while artifact A is handled was extracted
\* from A (and so carries a timestamp of A's window), also when passes overlap
\* and when an earlier failed extraction left frame files behind.
C19_FramesBelongToArtifact ==
  \A e \in archive : e.for # NoFile => e.origin = e.for

\* C20: time_last_sent changes only when a message is actually transmitted: a
\* suppressed send_message call leaves it unchanged and transmits nothing, and a
\* call whose messaging client fails does not advance it.
C20_LastSentOnlyOnTransmission ==
  [][ /\ \A t \in Threads :
           (pc[t] = "sm_check" /\ pc'[t] \notin {"sm_check", "sm_send"})
             => (time_last_sent' = time_last_sent /\ sent' = sent)
      /\ time_last_sent' # time_last_sent => \E s \in sent' \ sent : s.ok ]_vars

====
